---- MODULE Spec2Model ----
(***************************************************************************)
(* A model of GeneratorMain.py: the recursive file discovery               *)
(* (get_file_list), the duration formatter (print_time), the progress      *)
(* renderer (animated_progress), the ffmpeg driver (generate_flac_file)    *)
(* and the conversion loop of __main__.                                    *)
(*                                                                         *)
(* Text is modelled as a sequence of string chunks: a path is its          *)
(* components with the "." and "/" characters as chunks of their own, a    *)
(* number is the sequence of its decimal digits.                           *)
(***************************************************************************)
EXTENDS Integers, Sequences, FiniteSets, TLC

VARIABLES
    tree,           \* the directory tree on disk
    removed,        \* files deleted from disk since the tree was listed
    files,          \* the module-level list `files`
    returned,       \* what the latest get_file_list call returned
    last_call,      \* the arguments of the latest get_file_list call
    calls,          \* number of get_file_list calls made so far
    seconds,        \* the argument handed to print_time
    readable_time,  \* what print_time did with it
    symbol,         \* the module-level setting `symbol`
    sample,         \* the arguments handed to animated_progress
    rendered,       \* what animated_progress did with them
    pc,             \* where the script stands
    i,              \* the index of the conversion loop of __main__ (from 1)
    probed_frames,  \* frame_count of generate_flac_file: the probed total, or False
    probe_output,   \* what the probe process printed
    elapsed,        \* int(time()) - start_time
    engine,         \* the convert process: "none", "running" or "closed"
    exit_status,    \* the exit status of the convert process, "none" while it runs
    pipe,           \* output of the convert process that was not read yet
    buffer,         \* the buffer of the pexpect reader
    written,        \* all the convert process wrote for the current file
    samples,        \* the samples handed to animated_progress for the file
    shown,          \* the progress lines written for the current file
    result,         \* what generate_flac_file returned for the current file
    results,        \* the success messages printed so far
    spawned,        \* the processes started so far, in order
    reading,        \* the processes whose output is being read
    error           \* the exception that ended the script, or "none"

fileVars == <<tree, removed, files, returned, last_call, calls>>

timeVars == <<seconds, readable_time>>

renderVars == <<symbol, sample, rendered>>

mainVars == <<pc, i, probed_frames, probe_output, elapsed, engine, exit_status, pipe,
              buffer, written, samples, shown, result, results, spawned, reading, error>>

vars == <<fileVars, timeVars, renderVars, mainVars>>

(***************************************************************************)
(* Bounds of the model.                                                    *)
(***************************************************************************)
MaxNodes == 3       \* directory entries below the root
MaxCalls == 2       \* get_file_list calls made by the harness of SpecFiles
MaxWeeks == 2       \* whole weeks in a duration handed to print_time
MaxCount == 3       \* frame counts of the samples handed to animated_progress
MaxElapsed == 4     \* seconds elapsed in the samples handed to animated_progress
MaxFrames == 2      \* frame numbers the engine prints, and frame counts the probe finds
MaxStream == 3      \* pieces of output the convert process writes for a file
MaxDelay == 2       \* seconds that pass in one round of the read loop

(***************************************************************************)
(* Generic helpers.                                                        *)
(***************************************************************************)
Range(s) == {s[k] : k \in 1..Len(s)}

NoDuplicates(s) == \A a, b \in 1..Len(s) : s[a] = s[b] => a = b

Member(x, s) == \E k \in 1..Len(s) : s[k] = x

(***************************************************************************)
(* Configuration (module-level constants of the script).                   *)
(***************************************************************************)
audio_files == <<"wav", "mp3", "m4a">>

video_files == <<"mp4", "mkv">>

ignore_dir == <<".", "ignore">>

(***************************************************************************)
(* The filesystem.  Node 0 is the root directory; node k in 1..tree.n has  *)
(* a parent directory, a name and a kind.  listdir returns the entries of  *)
(* a directory in node order.                                              *)
(***************************************************************************)
RootPath == <<"root">>

Entries ==
    { [name |-> <<"a", ".", "wav">>, kind |-> "file"],
      [name |-> <<"d", ".", "mp4">>, kind |-> "file"],
      [name |-> <<"b", ".", "png">>, kind |-> "file"],
      [name |-> <<"mp3">>,           kind |-> "file"],
      [name |-> <<"a", ".", "wav">>, kind |-> "dir"],
      [name |-> <<".", "ignore">>,   kind |-> "dir"],
      [name |-> <<"sub">>,           kind |-> "dir"] }

IsTree(t) ==
    /\ \A k \in 1..t.n :
          /\ t.parent[k] < k
          /\ t.parent[k] # 0 => t.entry[t.parent[k]].kind = "dir"
          \* nodes are numbered level by level, so listing order is node order
          /\ k > 1 => t.parent[k - 1] <= t.parent[k]
    /\ \A a, b \in 1..t.n :
          (a # b /\ t.parent[a] = t.parent[b]) => t.entry[a].name # t.entry[b].name

Trees ==
    UNION { { t \in [n : {k}, parent : [1..k -> 0..(k - 1)], entry : [1..k -> Entries]] :
                IsTree(t) } : k \in 0..MaxNodes }

ScenarioTree ==
    [n |-> 6,
     parent |-> <<0, 0, 0, 0, 3, 4>>,
     entry |-> << [name |-> <<"a", ".", "wav">>, kind |-> "file"],
                  [name |-> <<"b", ".", "png">>, kind |-> "file"],
                  [name |-> <<".", "ignore">>,   kind |-> "dir"],
                  [name |-> <<"sub">>,           kind |-> "dir"],
                  [name |-> <<"c", ".", "mp3">>, kind |-> "file"],
                  [name |-> <<"d", ".", "mp4">>, kind |-> "file"] >>]

\* os.path.join(root_dir, item)
join(root_dir, item) == root_dir \o <<"/">> \o item

RECURSIVE PathOf(_)
PathOf(k) == IF k = 0 THEN RootPath ELSE join(PathOf(tree.parent[k]), tree.entry[k].name)

\* os.path.isdir / os.path.isfile of the path of node k
isdir(k) == k = 0 \/ (k \in 1..tree.n /\ tree.entry[k].kind = "dir" /\ k \notin removed)

isfile(k) == k \in 1..tree.n /\ tree.entry[k].kind = "file" /\ k \notin removed

\* os.listdir: the entries of directory k, in listing order
RECURSIVE ListFrom(_, _)
ListFrom(k, c) ==
    IF c > tree.n THEN <<>>
    ELSE (IF tree.parent[c] = k /\ c \notin removed THEN <<c>> ELSE <<>>) \o ListFrom(k, c + 1)

listdir(k) == ListFrom(k, 1)

\* str.rpartition('.')[-1]: the text after the final ".", the whole text without one
RECURSIVE rpartition_last(_)
rpartition_last(s) ==
    IF Len(s) = 0 THEN <<>>
    ELSE IF s[Len(s)] = "." THEN <<>>
    ELSE IF \A k \in 1..Len(s) : s[k] # "." THEN s
    ELSE rpartition_last(SubSeq(s, 1, Len(s) - 1)) \o <<s[Len(s)]>>

\* ext in audio_files or ext in video_files
Whitelisted(ext) == Len(ext) = 1 /\ (Member(ext[1], audio_files) \/ Member(ext[1], video_files))

\* line 113: the bare directory entry is compared with ignore_dir
IsIgnoredBroken(item, joined) == joined = ignore_dir

IsIgnored(item, joined) == item = ignore_dir

(***************************************************************************)
(* get_file_list(root_dir, mode): appends to the accumulator (the global   *)
(* `files`) first the supported files of the directory, then, in recursive *)
(* mode, what the recursive calls on its sub-directories append.           *)
(***************************************************************************)
RECURSIVE AppendFiles(_, _, _)
AppendFiles(root_dir, items, acc) ==
    IF items = <<>> THEN acc
    ELSE LET item == join(root_dir, tree.entry[Head(items)].name)
             ext == rpartition_last(item)
         IN AppendFiles(root_dir, Tail(items),
                        IF isfile(Head(items)) /\ Whitelisted(ext)
                        THEN Append(acc, item) ELSE acc)

RECURSIVE get_file_list(_, _, _, _)
RECURSIVE Descend(_, _, _, _)
Descend(root_dir, items, mode, acc) ==
    IF items = <<>> THEN acc
    ELSE LET item == tree.entry[Head(items)].name
             joined == join(root_dir, item)
         IN Descend(root_dir, Tail(items), mode,
                    IF IsIgnored(item, joined) THEN acc
                    ELSE IF isdir(Head(items))
                         THEN get_file_list(Head(items), joined, mode, acc)
                         ELSE acc)

get_file_list(k, root_dir, mode, acc) ==
    LET items == listdir(k)
        own == AppendFiles(root_dir, items, acc)
    IN IF mode = "recursive" THEN Descend(root_dir, items, mode, own) ELSE own

(***************************************************************************)
(* SpecFiles: a harness that calls get_file_list on any path of a static   *)
(* tree, any number of times up to MaxCalls.                               *)
(***************************************************************************)
Modes == {"recursive", "direct"}

NoCall == [root |-> -1, mode |-> "none"]

NotCalled == [raised |-> "not called", value |-> <<>>]

\* total_frames is an integer, or the boolean False when the count is unknown;
\* Python compares and divides the boolean as the integer 0
Known(n) == [known |-> TRUE, n |-> n]

Unknown == [known |-> FALSE, n |-> 0]

NoSample == [frame_count |-> 0, total_frames |-> Unknown, time_elapsed |-> 0]

IdleFiles ==
    /\ tree = ScenarioTree
    /\ removed = {}
    /\ files = <<>>
    /\ returned = <<"nothing">>
    /\ last_call = NoCall
    /\ calls = 0

IdleTime ==
    /\ seconds = 0
    /\ readable_time = NotCalled

IdleRender ==
    /\ symbol = <<>>
    /\ sample = NoSample
    /\ rendered = NotCalled

NoResult == <<FALSE, <<>>>>

IdleMain ==
    /\ pc = "idle"
    /\ i = 0
    /\ probed_frames = Unknown
    /\ probe_output = <<>>
    /\ elapsed = 0
    /\ engine = "none"
    /\ exit_status = "none"
    /\ pipe = <<>>
    /\ buffer = <<>>
    /\ written = <<>>
    /\ samples = <<>>
    /\ shown = <<>>
    /\ result = NoResult
    /\ results = <<>>
    /\ spawned = <<>>
    /\ reading = {}
    /\ error = "none"

InitFiles ==
    /\ tree \in Trees
    /\ removed = {}
    /\ files = <<>>
    /\ returned = <<"nothing">>
    /\ last_call = NoCall
    /\ calls = 0
    /\ IdleTime
    /\ IdleRender
    /\ IdleMain

\* get_file_list(root, mode) on a directory: the list is extended and returned
CallGetFileList(k, mode) ==
    /\ calls < MaxCalls
    /\ isdir(k)
    /\ files' = get_file_list(k, PathOf(k), mode, files)
    /\ returned' = files'
    /\ last_call' = [root |-> k, mode |-> mode]
    /\ calls' = calls + 1
    /\ UNCHANGED <<tree, removed, timeVars, renderVars, mainVars>>

\* get_file_list(root, mode) on a path that is no directory: FileNotFoundError
CallGetFileListNoDir(k, mode) ==
    /\ calls < MaxCalls
    /\ ~isdir(k)
    /\ returned' = <<"FileNotFoundError">>
    /\ last_call' = [root |-> k, mode |-> mode]
    /\ calls' = calls + 1
    /\ UNCHANGED <<tree, removed, files, timeVars, renderVars, mainVars>>

NextFiles ==
    \E k \in 0..tree.n, mode \in Modes :
        \/ CallGetFileList(k, mode)
        \/ CallGetFileListNoDir(k, mode)

SpecFiles == InitFiles /\ [][NextFiles]_vars

(***************************************************************************)
(* print_time(seconds): a duration as text.                                *)
(***************************************************************************)
units == <<"weeks", "days", "hours", "minutes", "seconds">>

time_units == <<60 * 60 * 24 * 7, 60 * 60 * 24, 60 * 60, 60, 1>>

DigitChars == <<"0", "1", "2", "3", "4", "5", "6", "7", "8", "9">>

\* str(n) of a non-negative integer: its decimal digits
RECURSIVE str(_)
str(n) == IF n < 10 THEN <<DigitChars[n + 1]>> ELSE str(n \div 10) \o <<DigitChars[(n % 10) + 1]>>

\* str.strip(): the text without its leading and trailing blanks
RECURSIVE strip(_)
strip(s) ==
    IF s = <<>> THEN s
    ELSE IF Head(s) = " " THEN strip(Tail(s))
    ELSE IF s[Len(s)] = " " THEN strip(SubSeq(s, 1, Len(s) - 1))
    ELSE s

MinOf(a, b) == IF a < b THEN a ELSE b

\* line 205 without the reduction: seconds is left as it was
RemainderKept(secs, unit) == secs

\* line 205: seconds %= time_units[temp_counter]
Remainder(secs, unit) == secs % unit

\* the while loop of lines 201-206
RECURSIVE print_time_loop(_, _, _)
print_time_loop(secs, temp_counter, text) ==
    IF ~(MinOf(Len(time_units), Len(units)) > temp_counter) THEN text
    ELSE LET unit == time_units[temp_counter + 1]
         IN IF secs >= unit
            THEN print_time_loop(Remainder(secs, unit), temp_counter + 1,
                                 text \o str(secs \div unit)
                                      \o <<" ", units[temp_counter + 1], " ">>)
            ELSE print_time_loop(secs, temp_counter + 1, text)

print_time(secs) ==
    IF secs < 0 THEN [raised |-> "ValueError", value |-> <<>>]
    ELSE IF secs = 0 THEN [raised |-> "none", value |-> <<"0", " ", "seconds">>]
    ELSE [raised |-> "none", value |-> strip(print_time_loop(secs, 0, <<>>))]

(***************************************************************************)
(* SpecTime: print_time applied to a duration.                             *)
(***************************************************************************)
TimeInputs ==
    {-2, -1} \cup
    { w * time_units[1] + d * time_units[2] + h * time_units[3] + m * time_units[4] + s :
        w \in 0..MaxWeeks, d \in {0, 1, 6}, h \in {0, 1, 23}, m \in {0, 1, 59},
        s \in {0, 1, 59} }

InitTime ==
    /\ IdleFiles
    /\ IdleRender
    /\ IdleMain
    /\ seconds \in TimeInputs
    /\ readable_time = NotCalled

CallPrintTime ==
    /\ readable_time = NotCalled
    /\ readable_time' = print_time(seconds)
    /\ UNCHANGED <<fileVars, renderVars, mainVars, seconds>>

NextTime == CallPrintTime

SpecTime == InitTime /\ [][NextTime]_vars


(***************************************************************************)
(* animated_progress(frame_count, total_frames, time_elapsed): one line of *)
(* the progress display.  A percentage is kept in hundredths of a percent. *)
(***************************************************************************)
progress_bar_count == 20

RECURSIVE Repeat(_, _)
Repeat(s, n) == IF n <= 0 THEN <<>> ELSE s \o Repeat(s, n - 1)

\* round(float(frame_count / total_frames) * 100, 2), in hundredths: the
\* nearest hundredth, the even one of two equally near
RoundedPercentage(frame_count, total) ==
    LET q == (10000 * frame_count) \div total
        r == (10000 * frame_count) % total
    IN IF 2 * r > total \/ (2 * r = total /\ q % 2 = 1) THEN q + 1 ELSE q

\* ('%04.02f' % percentage + '%').rjust(7)
PercentText(p) ==
    LET text == str(p \div 100) \o <<".", DigitChars[((p % 100) \div 10) + 1],
                                     DigitChars[(p % 10) + 1], "%">>
    IN Repeat(<<" ">>, 7 - Len(text)) \o text

\* line 279 with the ceiling of line 284
HashesCeil(p) == (p * progress_bar_count + 9999) \div 10000

\* int(percentage / bar_size), bar_size = 100 / progress_bar_count
Hashes(p) == (p * progress_bar_count) \div 10000

\* ceil(percentage / bar_size)
Completed(p) == (p * progress_bar_count + 9999) \div 10000

\* lines 276-286: the bar, of the symbol when one is set, of blocks otherwise
ProgressBar(sym, p) ==
    IF Len(sym) # 0
    THEN Repeat(sym, Hashes(p)) \o Repeat(<<" ">>, progress_bar_count - Hashes(p))
    ELSE Repeat(<<"BLOCK">>, Completed(p)) \o Repeat(<<" ">>, progress_bar_count - Completed(p))

Raise(what) == [raised |-> what, percentage |-> <<>>, progress |-> <<>>, remaining |-> <<>>]

\* lines 246-251 without the check of time_elapsed
InvalidSampleLax(frame_count, total_frames, time_elapsed) ==
    \/ frame_count < 0
    \/ total_frames.known /\ total_frames.n <= 0
    \/ frame_count > total_frames.n

\* lines 237-254: the samples that are refused with a ValueError
InvalidSample(frame_count, total_frames, time_elapsed) ==
    \/ frame_count < 0
    \/ total_frames.known /\ total_frames.n <= 0
    \/ frame_count > total_frames.n
    \/ time_elapsed < 0

\* lines 263-270: the seconds remaining (the division of line 265 is by
\* frame_count / time_elapsed, which is 0.0 for frame_count = 0).  The code
\* divides floats; for the totals and times of Samples the float quotient
\* truncates to the exact floor written here.
Eta(frame_count, total_frames, time_elapsed) ==
    IF time_elapsed > 0
    THEN (total_frames.n * time_elapsed) \div frame_count - time_elapsed
    ELSE 0 - time_elapsed

animated_progress(sym, frame_count, total_frames, time_elapsed) ==
    IF InvalidSample(frame_count, total_frames, time_elapsed) THEN Raise("ValueError")
    ELSE IF time_elapsed > 0 /\ frame_count = 0 THEN Raise("ZeroDivisionError")
    ELSE LET percentage == IF total_frames.known
                           THEN RoundedPercentage(frame_count, total_frames.n) ELSE 0
             eta == Eta(frame_count, total_frames, time_elapsed)
         IN IF ~total_frames.known
            THEN [raised |-> "none",
                  percentage |-> <<"Frames: ">> \o str(frame_count),
                  progress |-> <<>>,
                  remaining |-> <<"SHRUG">>]
            ELSE IF print_time(eta).raised # "none" THEN Raise(print_time(eta).raised)
            ELSE [raised |-> "none",
                  percentage |-> PercentText(percentage),
                  progress |-> ProgressBar(sym, percentage),
                  remaining |-> print_time(eta).value]

(***************************************************************************)
(* SpecRender: animated_progress applied to a sample, under a setting of   *)
(* `symbol` (at most 4 characters after line 443).                         *)
(***************************************************************************)
Symbols == { <<>>, <<"#">>, <<"=", ">">>, <<"[", "=", "=", "]">> }

TotalFrames == {Unknown} \cup {Known(n) : n \in -1..MaxCount}

Samples ==
    [frame_count : -1..(MaxCount + 1), total_frames : TotalFrames,
     time_elapsed : -1..MaxElapsed]
    \cup { [frame_count |-> 50, total_frames |-> Known(100), time_elapsed |-> 10],
           [frame_count |-> 100, total_frames |-> Known(100), time_elapsed |-> 0] }

InitRender ==
    /\ IdleFiles
    /\ IdleTime
    /\ IdleMain
    /\ symbol \in Symbols
    /\ sample \in Samples
    /\ rendered = NotCalled

CallAnimatedProgress ==
    /\ rendered = NotCalled
    /\ rendered' = animated_progress(symbol, sample.frame_count, sample.total_frames,
                                     sample.time_elapsed)
    /\ UNCHANGED <<fileVars, timeVars, mainVars, symbol, sample>>

NextRender == CallAnimatedProgress

SpecRender == InitRender /\ [][NextRender]_vars


(***************************************************************************)
(* generate_flac_file: the probe, the convert process and the read loop.   *)
(***************************************************************************)
\* the node a discovered path names
NodeOf(path) == CHOOSE k \in 1..tree.n : PathOf(k) = path

LastIndex(s, c) ==
    CHOOSE p \in 0..Len(s) :
        /\ p # 0 => s[p] = c
        /\ \A q \in (p + 1)..Len(s) : s[q] # c

\* lines 371-372: the same directory and base name, with the extension flac
flac_file(original_file) ==
    LET slash == LastIndex(original_file, "/")
        directory == SubSeq(original_file, 1, slash - 1)
        file_name == SubSeq(original_file, slash + 1, Len(original_file))
        stem == SubSeq(file_name, 1, LastIndex(file_name, ".") - 1)
    IN join(directory, stem) \o <<".", "flac">>

\* What the probe prints, entry by entry: a NUMBER_OF_FRAMES-<tag>: <digits>
\* entry, an entry that the pattern of line 388 does not match (the tag
\* without digits), or other text.
FramesTag(n) == [kind |-> "frames_tag", n |-> n]

ProbeEntries ==
    { [kind |-> "text", n |-> 0], [kind |-> "bad_tag", n |-> 0] }
    \cup { FramesTag(n) : n \in 0..MaxFrames }

ProbeOutputs ==
    { <<>> } \cup { <<a>> : a \in ProbeEntries }
             \cup { <<a, b>> : a \in ProbeEntries \ {FramesTag(0)}, b \in ProbeEntries }

\* lines 384-393: the digits of the first entry the pattern matches, else False
parse_frame_count(output) ==
    LET hits == { k \in 1..Len(output) : output[k].kind = "frames_tag" }
    IN IF hits = {} THEN Unknown
       ELSE Known(output[CHOOSE k \in hits : \A h \in hits : k <= h].n)

\* What the convert process prints, piece by piece: a progress marker
\* "frame= <n>", other text without a line break, or a line break.
Frame(n) == [kind |-> "frame", n |-> n]

Text == [kind |-> "text", n |-> 0]

Newline == [kind |-> "newline", n |-> 0]

Tokens == { Frame(n) : n \in 0..MaxFrames } \cup { Text, Newline }

\* pexpect looks for the patterns [EOF, "frame= *[0-9]+", "(.+)"] in the
\* buffer.  compile_pattern_list compiles with re.DOTALL, so "(.+)" matches
\* a buffer that is not empty from its first character to its last, line
\* breaks included; the pattern that matches earliest wins, and of two that
\* match at the same place the first of the list.
FirstOf(w, kinds) ==
    IF \E k \in 1..Len(w) : w[k].kind \in kinds
    THEN CHOOSE k \in 1..Len(w) :
            /\ w[k].kind \in kinds
            /\ \A h \in 1..(k - 1) : w[h].kind \notin kinds
    ELSE 0

\* where "(.+)" matches
FirstVisible(w) == FirstOf(w, {"frame", "text", "newline"})

FirstFrame(w) == FirstOf(w, {"frame"})

HasMatch(w) == FirstVisible(w) # 0

\* the index expect_list returns for a buffer that holds a match
MatchIndex(w) == IF FirstFrame(w) = FirstVisible(w) THEN 1 ELSE 2

\* the last piece of the match
MatchEnd(w) == IF MatchIndex(w) = 1 THEN FirstFrame(w) ELSE Len(w)

AfterMatch(w) == SubSeq(w, MatchEnd(w) + 1, Len(w))

(***************************************************************************)
(* Spec: the script from the discovery of the files to the end of the      *)
(* conversion loop, with the convert process and the filesystem as its     *)
(* environment.                                                            *)
(***************************************************************************)
Init ==
    /\ IdleFiles
    /\ IdleTime
    /\ symbol \in {<<>>, <<"#">>, <<"=", ">">>}
    /\ sample = NoSample
    /\ rendered = NotCalled
    /\ pc = "start"
    /\ i = 0
    /\ probed_frames = Unknown
    /\ probe_output = <<>>
    /\ elapsed = 0
    /\ engine = "none"
    /\ exit_status = "none"
    /\ pipe = <<>>
    /\ buffer = <<>>
    /\ written = <<>>
    /\ samples = <<>>
    /\ shown = <<>>
    /\ result = NoResult
    /\ results = <<>>
    /\ spawned = <<>>
    /\ reading = {}
    /\ error = "none"

\* line 516: get_file_list(root)
Discover ==
    /\ pc = "start"
    /\ files' = get_file_list(0, RootPath, "recursive", files)
    /\ returned' = files'
    /\ last_call' = [root |-> 0, mode |-> "recursive"]
    /\ calls' = calls + 1
    /\ pc' = "loop"
    /\ i' = 1
    /\ UNCHANGED <<tree, removed, timeVars, renderVars, probed_frames, probe_output,
                   elapsed, engine, exit_status, pipe, buffer, written, samples, shown, result,
                   results, spawned, reading, error>>

\* the filesystem: a discovered file whose turn has not come is deleted
RemoveFile(j) ==
    /\ pc \in {"loop", "probe", "convert", "sleep", "expect", "returned"}
    /\ j \in 1..Len(files)
    /\ j > i \/ (j = i /\ pc = "loop")
    /\ NodeOf(files[j]) \notin removed
    /\ removed' = removed \cup {NodeOf(files[j])}
    /\ UNCHANGED <<tree, files, returned, last_call, calls, timeVars, renderVars, mainVars>>

\* lines 364-365 moved behind line 379: the probe is started first
FileMissingLate ==
    /\ pc = "loop"
    /\ i <= Len(files)
    /\ ~isfile(NodeOf(files[i]))
    /\ spawned' = Append(spawned, <<i, "probe">>)
    /\ pc' = "crashed"
    /\ error' = "FileNotFoundError"
    /\ UNCHANGED <<fileVars, timeVars, renderVars, i, probed_frames, probe_output, elapsed,
                   engine, exit_status, pipe, buffer, written, samples, shown, result, results,
                   reading>>

\* lines 364-365: the file is gone, FileNotFoundError ends the script
FileMissing ==
    /\ pc = "loop"
    /\ i <= Len(files)
    /\ ~isfile(NodeOf(files[i]))
    /\ pc' = "crashed"
    /\ error' = "FileNotFoundError"
    /\ UNCHANGED <<fileVars, timeVars, renderVars, i, probed_frames, probe_output, elapsed,
                   engine, exit_status, pipe, buffer, written, samples, shown, result, results,
                   spawned, reading>>

\* lines 539, 364-379: the next file is there, the probe process is started
SpawnProbe ==
    /\ pc = "loop"
    /\ i <= Len(files)
    /\ isfile(NodeOf(files[i]))
    /\ spawned' = Append(spawned, <<i, "probe">>)
    /\ reading' = reading \cup {<<i, "probe">>}
    /\ pc' = "probe"
    /\ probed_frames' = Unknown
    /\ probe_output' = <<>>
    /\ elapsed' = 0
    /\ engine' = "none"
    /\ exit_status' = "none"
    /\ pipe' = <<>>
    /\ buffer' = <<>>
    /\ written' = <<>>
    /\ samples' = <<>>
    /\ shown' = <<>>
    /\ result' = NoResult
    /\ UNCHANGED <<fileVars, timeVars, renderVars, i, results, error>>

\* line 382 without the wait for the end of the probe
ProbeReadEarly(output) ==
    /\ pc = "probe"
    /\ probe_output' = output
    /\ probed_frames' = parse_frame_count(output)
    /\ pc' = "convert"
    /\ UNCHANGED <<fileVars, timeVars, renderVars, i, elapsed, engine, exit_status, pipe, buffer,
                   written, samples, shown, result, results, spawned, reading, error>>

\* lines 382-393: the output of the probe is read to its end and searched
ProbeRead(output) ==
    /\ pc = "probe"
    /\ probe_output' = output
    /\ probed_frames' = parse_frame_count(output)
    /\ reading' = reading \ {<<i, "probe">>}
    /\ pc' = "convert"
    /\ UNCHANGED <<fileVars, timeVars, renderVars, i, elapsed, engine, exit_status, pipe, buffer,
                   written, samples, shown, result, results, spawned, error>>

\* lines 396-408: the convert process is started (the text of the probe is
\* not looked at again)
SpawnConvert ==
    /\ pc = "convert"
    /\ probe_output' = <<>>
    /\ spawned' = Append(spawned, <<i, "convert">>)
    /\ reading' = reading \cup {<<i, "convert">>}
    /\ engine' = "running"
    /\ exit_status' = "none"
    /\ elapsed' = 0
    /\ pc' = "sleep"
    /\ UNCHANGED <<fileVars, timeVars, renderVars, i, probed_frames, pipe,
                   buffer, written, samples, shown, result, results, error>>

\* the convert process prints a piece of output
EngineWrite(tok) ==
    /\ engine = "running"
    /\ pc \in {"sleep", "expect"}
    /\ Len(written) < MaxStream
    /\ pipe' = Append(pipe, tok)
    /\ written' = Append(written, tok)
    /\ UNCHANGED <<fileVars, timeVars, renderVars, pc, i, probed_frames, probe_output,
                   elapsed, engine, exit_status, buffer, samples, shown, result, results, spawned,
                   reading, error>>

\* the exit statuses of the convert process: success and failure
ExitStatuses == {0, 1}

\* the convert process ends with some exit status and its output is closed
EngineClose(status) ==
    /\ engine = "running"
    /\ pc \in {"sleep", "expect"}
    /\ engine' = "closed"
    /\ exit_status' = status
    /\ UNCHANGED <<fileVars, timeVars, renderVars, pc, i, probed_frames, probe_output,
                   elapsed, pipe, buffer, written, samples, shown, result, results,
                   spawned, reading, error>>

\* line 413: sleep(1), and whatever time the round takes besides
Sleep(d) ==
    /\ pc = "sleep"
    /\ elapsed' = elapsed + d
    /\ pc' = "expect"
    /\ UNCHANGED <<fileVars, timeVars, renderVars, i, probed_frames, probe_output, engine,
                   exit_status,                   pipe, buffer, written, samples, shown, result, results, spawned,
                   reading, error>>

\* line 414: nothing in the buffer matches, expect_list reads more output
ExpectRead(k) ==
    /\ pc = "expect"
    /\ ~HasMatch(buffer)
    /\ k \in 1..Len(pipe)
    /\ buffer' = buffer \o SubSeq(pipe, 1, k)
    /\ pipe' = SubSeq(pipe, k + 1, Len(pipe))
    /\ UNCHANGED <<fileVars, timeVars, renderVars, pc, i, probed_frames, probe_output,
                   elapsed, engine, exit_status, written, samples, shown, result, results, spawned,
                   reading, error>>

\* lines 418-422: the progress marker matched, the sample is rendered; an
\* exception of animated_progress ends the script
ExpectFrame ==
    /\ pc = "expect"
    /\ HasMatch(buffer)
    /\ MatchIndex(buffer) = 1
    /\ LET count == buffer[FirstFrame(buffer)].n
           line == animated_progress(symbol, count, probed_frames, elapsed)
       IN /\ samples' = Append(samples, [frame_count |-> count,
                                         total_frames |-> probed_frames,
                                         time_elapsed |-> elapsed])
          /\ IF line.raised = "none"
             THEN /\ shown' = Append(shown, line)
                  /\ pc' = "sleep"
                  /\ error' = error
             ELSE /\ shown' = shown
                  /\ pc' = "crashed"
                  /\ error' = line.raised
    /\ buffer' = AfterMatch(buffer)
    /\ UNCHANGED <<fileVars, timeVars, renderVars, i, probed_frames, probe_output, elapsed,
                   engine, exit_status, pipe, written, result, results, spawned, reading>>

\* line 414: the catch-all matched, the text is dropped
ExpectOther ==
    /\ pc = "expect"
    /\ HasMatch(buffer)
    /\ MatchIndex(buffer) = 2
    /\ buffer' = AfterMatch(buffer)
    /\ pc' = "sleep"
    /\ UNCHANGED <<fileVars, timeVars, renderVars, i, probed_frames, probe_output, elapsed,
                   engine, exit_status, pipe, written, samples, shown, result, results, spawned,
                   reading, error>>

\* line 424 returning what the exit status of the convert process says
ExpectEOFChecked ==
    /\ pc = "expect"
    /\ ~HasMatch(buffer)
    /\ pipe = <<>>
    /\ engine = "closed"
    /\ buffer' = <<>>
    /\ result' = IF exit_status = 0 THEN <<TRUE, flac_file(files[i])>> ELSE NoResult
    /\ reading' = reading \ {<<i, "convert">>}
    /\ pc' = "returned"
    /\ UNCHANGED <<fileVars, timeVars, renderVars, i, probed_frames, probe_output, elapsed,
                   engine, exit_status, pipe, written, samples, shown, results, spawned,
                   error>>

\* lines 415-417, 424: end of the output, the function returns
ExpectEOF ==
    /\ pc = "expect"
    /\ ~HasMatch(buffer)
    /\ pipe = <<>>
    /\ engine = "closed"
    /\ buffer' = <<>>
    /\ result' = <<TRUE, flac_file(files[i])>>
    /\ reading' = reading \ {<<i, "convert">>}
    /\ pc' = "returned"
    /\ UNCHANGED <<fileVars, timeVars, renderVars, i, probed_frames, probe_output, elapsed,
                   engine, exit_status, pipe, written, samples, shown, results, spawned, error>>

\* line 414: no output for 10 seconds; TIMEOUT is not in the pattern list, so
\* expect_list raises it, and nothing catches it
ExpectTimeout ==
    /\ pc = "expect"
    /\ ~HasMatch(buffer)
    /\ pipe = <<>>
    /\ engine = "running"
    /\ pc' = "crashed"
    /\ error' = "TIMEOUT"
    /\ UNCHANGED <<fileVars, timeVars, renderVars, i, probed_frames, probe_output, elapsed,
                   engine, exit_status, pipe, buffer, written, samples, shown, result, results,
                   spawned, reading>>

\* lines 541-550 without the call of line 547
FinishUnforced ==
    /\ pc = "returned"
    /\ IF ~result[1]
       THEN UNCHANGED results
       ELSE results' = Append(results, result[2])
    /\ pc' = "loop"
    /\ i' = i + 1
    /\ UNCHANGED <<fileVars, timeVars, renderVars, probed_frames, probe_output, elapsed,
                   engine, exit_status, pipe, buffer, written, samples, shown, result,
                   spawned, reading, error>>

\* lines 541-550: the closing render and the success message
Finish ==
    /\ pc = "returned"
    /\ LET line == animated_progress(symbol, 100, Known(100), 0)
       IN IF ~result[1]
          THEN /\ UNCHANGED <<shown, results, error>>
               /\ pc' = "loop"
               /\ i' = i + 1
          ELSE IF line.raised = "none"
          THEN /\ shown' = Append(shown, line)
               /\ results' = Append(results, result[2])
               /\ error' = error
               /\ pc' = "loop"
               /\ i' = i + 1
          ELSE /\ UNCHANGED <<shown, results, i>>
               /\ pc' = "crashed"
               /\ error' = line.raised
    /\ UNCHANGED <<fileVars, timeVars, renderVars, probed_frames, probe_output, elapsed,
                   engine, exit_status, pipe, buffer, written, samples, result, spawned, reading>>

\* line 538: the list is exhausted
LoopDone ==
    /\ pc = "loop"
    /\ i > Len(files)
    /\ pc' = "exit"
    /\ UNCHANGED <<fileVars, timeVars, renderVars, i, probed_frames, probe_output, elapsed,
                   engine, exit_status, pipe, buffer, written, samples, shown, result, results,
                   spawned, reading, error>>

Next ==
    \/ Discover
    \/ \E j \in 1..Len(files) : RemoveFile(j)
    \/ FileMissing
    \/ SpawnProbe
    \/ \E output \in ProbeOutputs : ProbeRead(output)
    \/ SpawnConvert
    \/ \E tok \in Tokens : EngineWrite(tok)
    \/ \E status \in ExitStatuses : EngineClose(status)
    \/ \E d \in 1..MaxDelay : Sleep(d)
    \/ \E k \in 1..Len(pipe) : ExpectRead(k)
    \/ ExpectFrame
    \/ ExpectOther
    \/ ExpectEOF
    \/ ExpectTimeout
    \/ Finish
    \/ LoopDone

Spec == Init /\ [][Next]_vars


(***************************************************************************)
(* What a recursive collection below directory r has to hold, stated on    *)
(* the tree itself: the regular files whose name ends in a supported       *)
(* extension and that have no directory named ignore_dir between r and     *)
(* themselves.                                                             *)
(***************************************************************************)
RECURSIVE AncestorsOf(_)
AncestorsOf(k) == IF k = 0 THEN {} ELSE {tree.parent[k]} \cup AncestorsOf(tree.parent[k])

LastDot(name) == CHOOSE p \in 0..Len(name) :
                    /\ p # 0 => name[p] = "."
                    /\ \A q \in (p + 1)..Len(name) : name[q] # "."

HasSupportedExtension(name) ==
    /\ LastDot(name) # 0
    /\ LastDot(name) = Len(name) - 1
    /\ name[Len(name)] \in Range(audio_files) \cup Range(video_files)

BeneathIgnored(k, r) ==
    \E a \in AncestorsOf(k) :
        a # 0 /\ a # r /\ r \in AncestorsOf(a) /\ tree.entry[a].name = ignore_dir

ExpectedBelow(r) ==
    { k \in 1..tree.n :
        /\ tree.entry[k].kind = "file"
        /\ r \in AncestorsOf(k)
        /\ HasSupportedExtension(tree.entry[k].name)
        /\ ~BeneathIgnored(k, r) }

FirstRecursiveCall ==
    calls = 1 /\ last_call.mode = "recursive" /\ isdir(last_call.root)

\* C1: a recursive get_file_list call that starts from an empty list returns
\* exactly the supported regular files below the root that are not beneath a
\* directory named ignore_dir, each once: no file beneath an ignored
\* directory, no file with another extension and no directory.
C1_RecursiveCollection ==
    FirstRecursiveCall =>
        /\ Range(returned) = {PathOf(k) : k \in ExpectedBelow(last_call.root)}
        /\ Len(returned) = Cardinality(ExpectedBelow(last_call.root))
        /\ \A k \in 1..tree.n :
              (\/ tree.entry[k].kind = "dir"
               \/ BeneathIgnored(k, last_call.root)
               \/ ~HasSupportedExtension(tree.entry[k].name))
              => PathOf(k) \notin Range(returned)

\* C1 witness: a first recursive call that returned a file while a supported
\* file beneath an ignored directory was left out.
C1_Witness ==
    /\ FirstRecursiveCall
    /\ returned # <<>>
    /\ \E k \in 1..tree.n :
          /\ tree.entry[k].kind = "file"
          /\ HasSupportedExtension(tree.entry[k].name)
          /\ BeneathIgnored(k, last_call.root)

\* C2: on a static filesystem the collection returned by the latest call is
\* the one a first call on the same root and mode returns, whatever calls
\* came before, and it holds no entry twice.
C2_Idempotent ==
    (calls >= 1 /\ isdir(last_call.root)) =>
        /\ returned = get_file_list(last_call.root, PathOf(last_call.root),
                                    last_call.mode, <<>>)
        /\ NoDuplicates(returned)

(***************************************************************************)
(* Reading a duration text back: <count> <unit> segments separated by      *)
(* single blanks.                                                          *)
(***************************************************************************)
IsDigit(c) == c \in Range(DigitChars)

DigitValue(c) == CHOOSE v \in 0..9 : DigitChars[v + 1] = c

LeadingDigits(s) ==
    CHOOSE d \in 0..Len(s) :
        /\ \A k \in 1..d : IsDigit(s[k])
        /\ d < Len(s) => ~IsDigit(s[d + 1])

RECURSIVE NumberOf(_)
NumberOf(ds) ==
    IF ds = <<>> THEN 0
    ELSE 10 * NumberOf(SubSeq(ds, 1, Len(ds) - 1)) + DigitValue(ds[Len(ds)])

BadSegment == [count |-> -1, unit |-> "?"]

RECURSIVE ReadTime(_)
ReadTime(s) ==
    LET d == LeadingDigits(s)
    IN IF d = 0 \/ Len(s) < d + 2 \/ s[1] = "0" THEN <<BadSegment>>
       ELSE IF s[d + 1] # " " \/ s[d + 2] \notin Range(units) THEN <<BadSegment>>
       ELSE <<[count |-> NumberOf(SubSeq(s, 1, d)), unit |-> s[d + 2]]>>
            \o (IF Len(s) = d + 2 THEN <<>>
                ELSE IF Len(s) = d + 3 \/ s[d + 3] # " " THEN <<BadSegment>>
                ELSE ReadTime(SubSeq(s, d + 4, Len(s))))

UnitIndex(u) == CHOOSE k \in 1..Len(units) : units[k] = u

RECURSIVE TotalSeconds(_)
TotalSeconds(segs) ==
    IF segs = <<>> THEN 0
    ELSE Head(segs).count * time_units[UnitIndex(Head(segs).unit)] + TotalSeconds(Tail(segs))

\* days < 7, hours < 24, minutes < 60, seconds < 60; weeks have no limit
UnitLimit == <<0, 7, 24, 60, 60>>

\* C10: print_time(0) is "0 seconds", a negative duration is an error, and a
\* positive one reads back as <count> <unit> segments, single blanks between
\* them and none at the end, units in the order weeks, days, hours, minutes,
\* seconds, every count non-zero, days < 7, hours < 24, minutes < 60,
\* seconds < 60, and the segments add up to the duration.
C10_PrintTime ==
    readable_time # NotCalled =>
        /\ seconds = 0 => readable_time = [raised |-> "none", value |-> <<"0", " ", "seconds">>]
        /\ seconds < 0 => readable_time.raised = "ValueError" /\ readable_time.value = <<>>
        /\ seconds > 0 =>
              LET segs == ReadTime(readable_time.value)
              IN /\ readable_time.raised = "none"
                 /\ \A k \in 1..Len(segs) :
                       /\ segs[k] # BadSegment
                       /\ segs[k].count > 0
                       /\ UnitIndex(segs[k].unit) > 1 =>
                             segs[k].count < UnitLimit[UnitIndex(segs[k].unit)]
                       /\ k > 1 => UnitIndex(segs[k - 1].unit) < UnitIndex(segs[k].unit)
                 /\ TotalSeconds(segs) = seconds
        /\ seconds = 3661 =>
              readable_time.value = <<"1", " ", "hours", " ", "1", " ", "minutes", " ",
                                      "1", " ", "seconds">>

\* C10 witness: a duration with two-digit counts and a skipped unit went
\* through print_time.
C10_Witness ==
    /\ readable_time.raised = "none"
    /\ seconds = time_units[1] + 23 * time_units[3] + 59
    /\ readable_time.value = <<"1", " ", "weeks", " ", "2", "3", " ", "hours", " ",
                               "5", "9", " ", "seconds">>

(***************************************************************************)
(* The progress display read back.                                         *)
(***************************************************************************)
Called == rendered # NotCalled

KnownTotal == sample.total_frames.known

\* a sample the renderer has to refuse
InvalidProgressSample ==
    \/ sample.frame_count < 0
    \/ KnownTotal /\ sample.total_frames.n <= 0
    \/ KnownTotal /\ sample.frame_count > sample.total_frames.n
    \/ sample.time_elapsed < 0

ValidKnownSample ==
    /\ KnownTotal
    /\ sample.total_frames.n > 0
    /\ 0 <= sample.frame_count
    /\ sample.frame_count <= sample.total_frames.n
    /\ sample.time_elapsed >= 0

\* the hundredths of a percent a percent text shows: "ddd.dd%" behind blanks
ShownPercentage(text) ==
    LET t == strip(text)
        d == LeadingDigits(t)
    IN IF /\ Len(text) = 7
          /\ d >= 1
          /\ Len(t) = d + 4
          /\ t[d + 1] = "."
          /\ IsDigit(t[d + 2])
          /\ IsDigit(t[d + 3])
          /\ t[d + 4] = "%"
       THEN 100 * NumberOf(SubSeq(t, 1, d)) + 10 * DigitValue(t[d + 2]) + DigitValue(t[d + 3])
       ELSE -1

\* p is frame_count / total_frames * 100 rounded to hundredths
IsRoundedPercentage(p) ==
    LET exact == 10000 * sample.frame_count
        t == sample.total_frames.n
    IN /\ 2 * (p * t - exact) <= t
       /\ 2 * (exact - p * t) <= t

\* the glyph of a filled cell
Glyph == IF symbol = <<>> THEN <<"BLOCK">> ELSE symbol

\* the bar is c filled cells followed by w - c blanks
IsBar(bar, c, w) == bar = Repeat(Glyph, c) \o Repeat(<<" ">>, w - c)

\* the filled-cell count the claim asks for: floor(p / (100 / w)) with a glyph,
\* ceil(p / (100 / w)) with the solid block
IsFilledCount(c, p, w) ==
    IF symbol # <<>>
    THEN c * 10000 <= p * w /\ p * w < (c + 1) * 10000
    ELSE (c - 1) * 10000 < p * w /\ p * w <= c * 10000

\* C8: a sample with frame_count < 0, a known total_frames <= 0, frame_count
\* above a known total_frames, or time_elapsed < 0 is refused with an error
\* before anything is written to the display.
C8_InvalidSampleRejected ==
    (Called /\ InvalidProgressSample) =>
        /\ rendered.raised = "ValueError"
        /\ rendered.percentage = <<>>
        /\ rendered.progress = <<>>
        /\ rendered.remaining = <<>>

\* C8 witness: a sample whose only fault is a negative time_elapsed was refused.
C8_Witness ==
    /\ Called
    /\ rendered.raised = "ValueError"
    /\ KnownTotal
    /\ sample.total_frames.n > 0
    /\ 0 <= sample.frame_count
    /\ sample.frame_count <= sample.total_frames.n
    /\ sample.time_elapsed < 0

RECURSIVE MarkersOf(_)
MarkersOf(w) ==
    IF w = <<>> THEN <<>>
    ELSE (IF Head(w).kind = "frame" THEN <<Head(w).n>> ELSE <<>>) \o MarkersOf(Tail(w))

CountTo(t) == [k \in 1..t |-> k]

FrameCountsOf(ss) == [k \in 1..Len(ss) |-> ss[k].frame_count]

\* C3: with a known total T and an output that holds the markers 1, 2, ..., T
\* among other text and then ends, the read loop reports exactly T samples,
\* one per marker and in their order, before it ends: none is lost to the
\* catch-all pattern and none is reported twice.
C3_EveryMarkerReported ==
    (/\ pc = "returned"
     /\ probed_frames.known
     /\ probed_frames.n >= 1
     /\ MarkersOf(written) = CountTo(probed_frames.n))
    => /\ FrameCountsOf(samples) = CountTo(probed_frames.n)
       /\ Len(shown) = probed_frames.n

\* the line of the display for n frames of an unknown total
FramesLine(n) ==
    [raised |-> "none", percentage |-> <<"Frames: ">> \o str(n), progress |-> <<>>,
     remaining |-> <<"SHRUG">>]

\* C4: when the probe found no frame count, no progress marker makes the
\* renderer fail: every sample is shown as "Frames: n", without a bar and
\* with the placeholder for the time remaining, and the read loop goes on.
C4_UnknownTotalDegrades ==
    (/\ pc \in {"sleep", "expect", "returned", "crashed"}
     /\ ~probed_frames.known)
    => /\ error \notin {"ValueError", "ZeroDivisionError"}
       /\ Len(shown) = Len(samples)
       /\ \A k \in 1..Len(shown) : shown[k] = FramesLine(samples[k].frame_count)

\* C5: a read that times out without a match is no failure: the script is
\* never ended by the timeout of expect_list.
C5_TimeoutIsNoFailure == pc = "crashed" => error # "TIMEOUT"

\* the processes in the order the loop has to start them: probe, then
\* convert, file after file
InOrder(k) == <<(k + 1) \div 2, IF k % 2 = 1 THEN "probe" ELSE "convert">>

SequentialNow ==
    /\ Cardinality(reading) <= 1
    /\ \A k \in 1..Len(spawned) : spawned[k] = InOrder(k)
    /\ pc # "start" =>
          /\ Len(results) = i - 1
          /\ Len(results) <= Len(files)
          /\ \A k \in 1..Len(results) : results[k] = flac_file(files[k])
    \* the probe is read to its end before the convert process starts, and a
    \* convert process has reached its end before the next probe starts
    /\ Len(spawned) % 2 = 0 => <<Len(spawned) \div 2, "probe">> \notin reading
    /\ (Len(spawned) % 2 = 1 /\ Len(spawned) > 1) =>
          /\ <<Len(spawned) \div 2, "convert">> \notin reading
          /\ Len(results) >= Len(spawned) \div 2
    /\ pc = "exit" => Len(results) = Len(files)

\* C6: the files are converted one after the other in the order of the list,
\* which is fixed before the loop starts: per file the probe is read to its
\* end before the convert process is started, the next probe starts only
\* after the convert process reached end-of-stream, no two processes are
\* read at once, and the results are those of the files in list order, one
\* per file.
C6_Sequential == [](SequentialNow) /\ [][pc # "start" => files' = files]_vars

\* C6 witness: both files of the list went through probe and convert.
C6_Witness ==
    /\ pc = "exit"
    /\ Len(files) = 2
    /\ Len(results) = 2
    /\ Len(spawned) = 4

\* C7: a discovered file that is gone when its turn comes ends the script
\* with FileNotFoundError before a process is started for it: no process for
\* it or for a later file, no success message for it, and nothing happens
\* afterwards.
C7_MissingFileAborts ==
    /\ \A k \in 1..Len(spawned) : NodeOf(files[spawned[k][1]]) \notin removed
    /\ error = "FileNotFoundError" =>
          /\ pc = "crashed"
          /\ i \in 1..Len(files)
          /\ NodeOf(files[i]) \in removed
          /\ \A k \in 1..Len(spawned) : spawned[k][1] < i
          /\ Len(results) = i - 1
          /\ reading = {}
          /\ ~ENABLED Next

\* C7 witness: the first file was gone, the second, still there, was never
\* touched.
C7_Witness ==
    /\ error = "FileNotFoundError"
    /\ i = 1
    /\ Len(files) = 2
    /\ NodeOf(files[2]) \notin removed
    /\ spawned = <<>>


(***************************************************************************)
(* C11: generate_flac_file returns only after the end-of-stream pattern    *)
(* matched on the output of the convert process (the process has ended and *)
(* all it wrote was consumed), and what it returns is always               *)
(* (True, destination path): never success = False, never a success        *)
(* without a path, whatever the exit status of the process was and however *)
(* many progress markers were seen.                                        *)
(***************************************************************************)
Returns == pc # "returned" /\ pc' = "returned"

EndOfStreamMatched == pc = "expect" /\ engine = "closed" /\ pipe = <<>> /\ buffer = <<>>

IsSuccessWithPath(r, original_file) ==
    /\ r[1] = TRUE
    /\ r[2] = flac_file(original_file)
    /\ r[2] # <<>>

ClosingLine ==
    [raised |-> "none",
     percentage |-> <<"1", "0", "0", ".", "0", "0", "%">>,
     progress |-> Repeat(Glyph, progress_bar_count),
     remaining |-> <<"0", " ", "seconds">>]

\* the lines of the real samples, then the closing line
ClosedDisplay(lines, ss) ==
    /\ Len(lines) = Len(ss) + 1
    /\ lines[Len(lines)] = ClosingLine
    /\ \A k \in 1..Len(ss) :
          lines[k] = animated_progress(symbol, ss[k].frame_count, ss[k].total_frames,
                                       ss[k].time_elapsed)

SuccessPrinted == results' # results

FileLeft == pc = "returned" /\ pc' # "returned"

C12_ClosingRender ==
    /\ [][FileLeft => /\ SuccessPrinted
                      /\ results' = Append(results, result[2])
                      /\ shown' = Append(shown, ClosingLine)
                      /\ ClosedDisplay(shown', samples)]_vars
    /\ [][SuccessPrinted => FileLeft]_vars
    /\ [](pc \in {"loop", "exit"} /\ i > 1 => ClosedDisplay(shown, samples))
    /\ [][pc' = "probe" /\ pc # "probe" /\ i > 1 => ClosedDisplay(shown, samples)]_vars

\* C12: a file of 2 frames whose last real sample was frame 1 is closed with
\* the full bar and its success message
C12_Witness ==
    /\ pc = "loop"
    /\ Len(results) = i - 1
    /\ samples # <<>>
    /\ samples[Len(samples)].frame_count = 1
    /\ samples[Len(samples)].total_frames = Known(2)
    /\ shown[Len(shown)] = ClosingLine
    /\ shown[Len(shown) - 1] # ClosingLine

\* C12: the same for a file whose total was not known
C12_WitnessUnknownTotal ==
    /\ pc = "loop"
    /\ i > 1
    /\ ~probed_frames.known
    /\ written # <<>>
    /\ shown = <<ClosingLine>>


(***************************************************************************)
(* C13: the validation is the only way animated_progress fails.  A sample  *)
(* with a known total that passes it (0 <= frame_count <= total_frames,    *)
(* total_frames > 0, time_elapsed >= 0), frame_count = 0 with              *)
(* time_elapsed > 0 included, is rendered without an exception, and the    *)
(* remaining time it shows is print_time of a non-negative integer:        *)
(* floor(total_frames * time_elapsed / frame_count) - time_elapsed when    *)
(* time_elapsed > 0, and 0 when time_elapsed = 0.                          *)
(***************************************************************************)
ExpectedEta ==
    IF sample.time_elapsed > 0
    THEN (sample.total_frames.n * sample.time_elapsed) \div sample.frame_count
         - sample.time_elapsed
    ELSE 0

C13_ValidSampleRenders ==
    (Called /\ ValidKnownSample)
    => /\ rendered.raised = "none"
       /\ ExpectedEta >= 0
       /\ rendered.remaining = print_time(ExpectedEta).value

====
